---- MODULE Spec2Model ----
(***************************************************************************)
(* Model of the extraction engine of conver-docx-to-csv_v2.py: the text    *)
(* normalizers _norm and _clean, parse_spanish_date, and the four          *)
(* extractors extract_eh_code, extract_fecha_version,                      *)
(* count_vulnerabilities_by_severity and extract_endpoints.                *)
(*                                                                         *)
(* A text is a sequence of characters.  A character is a one-element       *)
(* string for printable ASCII and the string "U+XXXX" for any other code   *)
(* point.  A Document is a sequence of paragraph texts and a sequence of   *)
(* tables; a table is a sequence of rows; a row is a sequence of cell      *)
(* texts.                                                                  *)
(***************************************************************************)
EXTENDS Integers, Sequences, FiniteSets, TLC

VARIABLES
    pc,          \* position of the running function
    text,        \* argument of the pure function under check
    out,         \* its result
    out2,        \* the result of applying it to its own result
    padsYear,    \* whether the C library's strftime zero-pads %Y
    paragraphs,  \* doc.paragraphs, as texts
    tables,      \* doc.tables
    pi,          \* index of the paragraph being scanned
    ti,          \* index of the table being scanned
    ri,          \* index of the row being scanned
    ci,          \* index of the cell being scanned
    eh,          \* value returned by extract_eh_code
    fecha,       \* value returned by extract_fecha_version
    counts,      \* dict counts of count_vulnerabilities_by_severity
    data,        \* dict data of extract_endpoints
    rows,        \* list rows of extract_endpoints
    endpoints    \* outcome of extract_endpoints

vars == <<pc, text, out, out2, padsYear, paragraphs, tables, pi, ti, ri, ci,
          eh, fecha, counts, data, rows, endpoints>>

(***************************************************************************)
(* Characters.                                                             *)
(***************************************************************************)
NBSP == "U+00A0"            \* "\xa0"
TAB == "U+0009"
COMBINING_ACUTE == "U+0301" \* combining acute accent
ACUTE == "U+00B4"           \* spacing acute accent, NFKD = space + U+0301
A_ACUTE_UP == "U+00C1"
E_ACUTE_UP == "U+00C9"
I_ACUTE_UP == "U+00CD"      \* the "Í" of line 94
O_ACUTE_UP == "U+00D3"
A_ACUTE == "U+00E1"
E_ACUTE == "U+00E9"
I_ACUTE == "U+00ED"
O_ACUTE == "U+00F3"

UpperAlpha ==
    <<"A","B","C","D","E","F","G","H","I","J","K","L","M","N","O","P","Q",
      "R","S","T","U","V","W","X","Y","Z",
      A_ACUTE_UP, E_ACUTE_UP, I_ACUTE_UP, O_ACUTE_UP>>

LowerAlpha ==
    <<"a","b","c","d","e","f","g","h","i","j","k","l","m","n","o","p","q",
      "r","s","t","u","v","w","x","y","z",
      A_ACUTE, E_ACUTE, I_ACUTE, O_ACUTE>>

\* the unaccented base letter of the four accented letters, upper and lower
AccentBase == <<"A","E","I","O">>

Digits == <<"0","1","2","3","4","5","6","7","8","9">>

Range(s) == {s[i] : i \in DOMAIN s}

IndexOf(s, c) == CHOOSE i \in DOMAIN s : s[i] = c

AsciiUpper == {UpperAlpha[i] : i \in 1..26}
AsciiLower == {LowerAlpha[i] : i \in 1..26}
DigitSet == Range(Digits)

\* str.isspace(): what str.strip() and str.split() treat as whitespace
IsSpace(c) == c \in {" ", TAB, NBSP}

\* str.lower() of one character
Lower(c) == IF c \in Range(UpperAlpha) THEN LowerAlpha[IndexOf(UpperAlpha, c)] ELSE c

\* str.upper() of one character
Upper(c) == IF c \in Range(LowerAlpha) THEN UpperAlpha[IndexOf(LowerAlpha, c)] ELSE c

\* unicodedata.combining(c) != 0
Combining(c) == c = COMBINING_ACUTE

\* unicodedata.normalize("NFKD", c) of one character
Decompose(c) ==
    IF c \in {A_ACUTE_UP, E_ACUTE_UP, I_ACUTE_UP, O_ACUTE_UP}
    THEN <<AccentBase[IndexOf(UpperAlpha, c) - 26], COMBINING_ACUTE>>
    ELSE IF c \in {A_ACUTE, E_ACUTE, I_ACUTE, O_ACUTE}
    THEN <<Lower(AccentBase[IndexOf(LowerAlpha, c) - 26]), COMBINING_ACUTE>>
    ELSE IF c = ACUTE THEN <<" ", COMBINING_ACUTE>>
    ELSE IF c = NBSP THEN <<" ">>
    ELSE <<c>>

(***************************************************************************)
(* Text helpers (str methods).                                             *)
(***************************************************************************)
EmptyText == <<>>

\* s.replace(a, b) for one-character a and b
ReplaceChar(s, a, b) == [i \in DOMAIN s |-> IF s[i] = a THEN b ELSE s[i]]

\* s.strip()
Strip(s) ==
    LET keep == {i \in DOMAIN s : ~IsSpace(s[i])}
    IN  IF keep = {} THEN EmptyText
        ELSE LET lo == CHOOSE i \in keep : \A j \in keep : i <= j
                 hi == CHOOSE i \in keep : \A j \in keep : j <= i
             IN  SubSeq(s, lo, hi)

\* unicodedata.normalize("NFKD", s): the decompositions, concatenated
RECURSIVE NFKD(_)
NFKD(s) == IF s = EmptyText THEN EmptyText ELSE Decompose(Head(s)) \o NFKD(Tail(s))

NotCombining(c) == ~Combining(c)

\* s.lower(), s.upper()
LowerText(s) == [i \in DOMAIN s |-> Lower(s[i])]
UpperText(s) == [i \in DOMAIN s |-> Upper(s[i])]

\* needle in hay
Contains(needle, hay) ==
    \E i \in 0..(Len(hay) - Len(needle)) : SubSeq(hay, i + 1, i + Len(needle)) = needle

\* s.split(): the maximal runs of non-whitespace characters
RECURSIVE Split(_)
Split(s) ==
    IF s = EmptyText THEN <<>>
    ELSE IF IsSpace(Head(s)) THEN Split(Tail(s))
    ELSE LET stop == {i \in DOMAIN s : IsSpace(s[i])}
             n == IF stop = {} THEN Len(s) + 1
                  ELSE CHOOSE i \in stop : \A j \in stop : i <= j
         IN  <<SubSeq(s, 1, n - 1)>> \o Split(SubSeq(s, n, Len(s)))

\* " ".join(parts)
RECURSIVE JoinSpace(_)
JoinSpace(parts) ==
    IF parts = <<>> THEN EmptyText
    ELSE IF Len(parts) = 1 THEN parts[1]
    ELSE parts[1] \o <<" ">> \o JoinSpace(Tail(parts))

(***************************************************************************)
(* _norm and _clean.                                                       *)
(***************************************************************************)
\* `if s is None` never holds for the text of a paragraph or a cell
_norm(s) ==
    LowerText(SelectSeq(NFKD(Strip(ReplaceChar(s, NBSP, " "))), NotCombining))

_clean(s) == JoinSpace(Split(ReplaceChar(s, NBSP, " ")))

(***************************************************************************)
(* Regular expressions.  A pattern is a sequence of elements: a character  *)
(* class with a repetition {min,max} (max = -1: unbounded), matched        *)
(* greedily with backtracking, or the assertion \b.  A cursor is a         *)
(* position in 1..Len(t)+1.                                                *)
(***************************************************************************)
Cls(set, min, max) == [kind |-> "cls", cls |-> set, min |-> min, max |-> max]

One(set) == Cls(set, 1, 1)

WordB == [kind |-> "wb"]

RE_DIGIT == DigitSet                  \* \d
RE_SPACE == {" ", TAB, NBSP}          \* \s
RE_AZ == AsciiLower                   \* [a-z]
\* \w: letters, digits and the underscore
RE_WORD == Range(UpperAlpha) \cup Range(LowerAlpha) \cup DigitSet \cup {"_"}

\* \b at cursor p: exactly one of the characters before and after p is \w
WordBoundary(t, p) ==
    (p > 1 /\ t[p - 1] \in RE_WORD) # (p <= Len(t) /\ t[p] \in RE_WORD)

\* how many characters from cursor p on are in set, at most max of them
RunLen(t, p, set, max) ==
    LET stop == {j \in p..Len(t) : t[j] \notin set}
        n == IF stop = {} THEN Len(t) + 1 - p
             ELSE (CHOOSE j \in stop : \A k \in stop : j <= k) - p
    IN  IF max >= 0 /\ n > max THEN max ELSE n

Fail == <<0>>

\* the cursors after each of the elements k.. of pat matched from cursor p,
\* every repetition as long as the rest of the pattern allows; Fail if none
RECURSIVE MatchFrom(_, _, _, _)
MatchFrom(t, p, pat, k) ==
    IF k > Len(pat) THEN <<>>
    ELSE IF pat[k].kind = "wb"
    THEN LET rest == IF WordBoundary(t, p) THEN MatchFrom(t, p, pat, k + 1) ELSE Fail
         IN  IF rest = Fail THEN Fail ELSE <<p>> \o rest
    ELSE LET run == RunLen(t, p, pat[k].cls, pat[k].max)
             tries == {<<n, MatchFrom(t, p + n, pat, k + 1)>> : n \in pat[k].min..run}
             good == {x \in tries : x[2] # Fail}
         IN  IF good = {} THEN Fail
             ELSE LET best == CHOOSE x \in good : \A y \in good : y[1] <= x[1]
                  IN  <<p + best[1]>> \o best[2]

NoMatch == [found |-> FALSE]

\* re.search(pat, t): the match at the leftmost position that has one
Search(t, pat) ==
    LET tries == {<<i, MatchFrom(t, i, pat, 1)>> : i \in 1..(Len(t) + 1)}
        good == {x \in tries : x[2] # Fail}
    IN  IF good = {} THEN NoMatch
        ELSE LET first == CHOOSE x \in good : \A y \in good : x[1] <= y[1]
             IN  [found |-> TRUE, start |-> first[1], ends |-> first[2]]

\* the text matched by element k of the pattern
Group(t, m, k) ==
    SubSeq(t, IF k = 1 THEN m.start ELSE m.ends[k - 1], m.ends[k] - 1)

\* m.group(0)
Group0(t, m) == SubSeq(t, m.start, m.ends[Len(m.ends)] - 1)

(***************************************************************************)
(* parse_spanish_date.                                                     *)
(***************************************************************************)
\* (\d{1,2})\s+de\s+([a-z]+)\s+de\s+(\d{4})
RE_LONG ==
    << Cls(RE_DIGIT, 1, 2), Cls(RE_SPACE, 1, -1), One({"d"}), One({"e"}),
       Cls(RE_SPACE, 1, -1), Cls(RE_AZ, 1, -1), Cls(RE_SPACE, 1, -1),
       One({"d"}), One({"e"}), Cls(RE_SPACE, 1, -1), Cls(RE_DIGIT, 4, 4) >>

\* (\d{1,2})[-/ ]([a-z]{3,})[-/ ](\d{4})
RE_ABBR ==
    << Cls(RE_DIGIT, 1, 2), One({"-", "/", " "}), Cls(RE_AZ, 3, -1),
       One({"-", "/", " "}), Cls(RE_DIGIT, 4, 4) >>

\* lines 40-44: day, mon_txt and year of the first pattern that matches
DateMatch(t) ==
    LET long == Search(t, RE_LONG)
        abbr == Search(t, RE_ABBR)
    IN  IF long.found
        THEN [found |-> TRUE, day |-> Group(t, long, 1), mon |-> Group(t, long, 6),
              year |-> Group(t, long, 11)]
        ELSE IF abbr.found
        THEN [found |-> TRUE, day |-> Group(t, abbr, 1), mon |-> Group(t, abbr, 3),
              year |-> Group(t, abbr, 5)]
        ELSE NoMatch

\* SPANISH_MONTHS, in insertion order
SPANISH_MONTHS ==
    << [k |-> <<"e","n","e","r","o">>, v |-> 1],
       [k |-> <<"f","e","b","r","e","r","o">>, v |-> 2],
       [k |-> <<"m","a","r","z","o">>, v |-> 3],
       [k |-> <<"a","b","r","i","l">>, v |-> 4],
       [k |-> <<"m","a","y","o">>, v |-> 5],
       [k |-> <<"j","u","n","i","o">>, v |-> 6],
       [k |-> <<"j","u","l","i","o">>, v |-> 7],
       [k |-> <<"a","g","o","s","t","o">>, v |-> 8],
       [k |-> <<"s","e","p","t","i","e","m","b","r","e">>, v |-> 9],
       [k |-> <<"s","e","t","i","e","m","b","r","e">>, v |-> 9],
       [k |-> <<"o","c","t","u","b","r","e">>, v |-> 10],
       [k |-> <<"n","o","v","i","e","m","b","r","e">>, v |-> 11],
       [k |-> <<"d","i","c","i","e","m","b","r","e">>, v |-> 12] >>

\* s.startswith(prefix)
StartsWith(s, prefix) == Len(prefix) <= Len(s) /\ SubSeq(s, 1, Len(prefix)) = prefix

\* s.strip(".")
StripDots(s) ==
    LET keep == {i \in DOMAIN s : s[i] # "."}
    IN  IF keep = {} THEN EmptyText
        ELSE LET lo == CHOOSE i \in keep : \A j \in keep : i <= j
                 hi == CHOOSE i \in keep : \A j \in keep : j <= i
             IN  SubSeq(s, lo, hi)

\* lines 46-50: the month of mon_txt, 0 for None
MonthOf(mon_txt) ==
    LET byPrefix == {n \in DOMAIN SPANISH_MONTHS :
                        StartsWith(mon_txt, SubSeq(SPANISH_MONTHS[n].k, 1, 3))}
        exact == {n \in DOMAIN SPANISH_MONTHS : SPANISH_MONTHS[n].k = mon_txt}
    IN  IF byPrefix # {}
        THEN SPANISH_MONTHS[CHOOSE n \in byPrefix : \A j \in byPrefix : n <= j].v
        ELSE IF exact # {} THEN SPANISH_MONTHS[CHOOSE n \in exact : TRUE].v
        ELSE 0

\* int(s) of a non-empty run of decimal digits
RECURSIVE ToInt(_)
ToInt(s) ==
    IF s = EmptyText THEN 0
    ELSE 10 * ToInt(SubSeq(s, 1, Len(s) - 1)) + (IndexOf(Digits, s[Len(s)]) - 1)

IsLeap(y) == (y % 4 = 0 /\ y % 100 # 0) \/ y % 400 = 0

DaysInMonth(y, m) ==
    IF m = 2 THEN (IF IsLeap(y) THEN 29 ELSE 28)
    ELSE IF m \in {4, 6, 9, 11} THEN 30 ELSE 31

\* datetime(y, m, d) does not raise ValueError
DateOk(y, m, d) ==
    y \in 1..9999 /\ m \in 1..12 /\ d \in 1..DaysInMonth(y, m)

\* the decimal digits of n >= 0, without padding
RECURSIVE Decimal(_)
Decimal(n) ==
    IF n < 10 THEN <<Digits[n + 1]>> ELSE Decimal(n \div 10) \o <<Digits[(n % 10) + 1]>>

RECURSIVE ZeroPad(_, _)
ZeroPad(s, width) == IF Len(s) >= width THEN s ELSE ZeroPad(<<"0">> \o s, width)

\* strftime("%d/%m/%Y"): %d and %m are two digits; %Y is four digits where the
\* C library pads it, and the bare decimal year where it does not (glibc)
Strftime(y, m, d, pads) ==
    ZeroPad(Decimal(d), 2) \o <<"/">> \o ZeroPad(Decimal(m), 2) \o <<"/">>
        \o (IF pads THEN ZeroPad(Decimal(y), 4) ELSE Decimal(y))

\* lines 52-55
FormatDate(y, m, d, pads) ==
    IF DateOk(y, m, d) THEN Strftime(y, m, d, pads) ELSE EmptyText

\* lines 44-55, after the match
DateOfMatch(m, pads) ==
    IF MonthOf(LowerText(StripDots(m.mon))) = 0 THEN EmptyText
    ELSE FormatDate(ToInt(m.year), MonthOf(LowerText(StripDots(m.mon))), ToInt(m.day), pads)

parse_spanish_date(s, pads) ==
    IF s = EmptyText THEN EmptyText
    ELSE LET m == DateMatch(_norm(s))
         IN  IF m.found THEN DateOfMatch(m, pads) ELSE EmptyText

(***************************************************************************)
(* Values of the variables a specification does not use.                   *)
(***************************************************************************)
Idle == "idle"

TextsUpTo(alphabet, n) == UNION {[1..k -> alphabet] : k \in 0..n}

SeqsUpTo(pool, n) == UNION {[1..k -> pool] : k \in 0..n}

(***************************************************************************)
(* SpecNorm: _norm applied to a text, then to its own result.              *)
(***************************************************************************)
NormMaxLen == 3

NormAlphabet == {" ", NBSP, "a", "A", A_ACUTE_UP, COMBINING_ACUTE, ACUTE}

InitNorm ==
    /\ text \in TextsUpTo(NormAlphabet, NormMaxLen)
    /\ pc = "norm"
    /\ out = Idle /\ out2 = Idle /\ padsYear = Idle
    /\ paragraphs = Idle /\ tables = Idle
    /\ pi = Idle /\ ti = Idle /\ ri = Idle /\ ci = Idle
    /\ eh = Idle /\ fecha = Idle /\ counts = Idle
    /\ data = Idle /\ rows = Idle /\ endpoints = Idle

NormOnce ==
    /\ pc = "norm"
    /\ out' = _norm(text)
    /\ pc' = "norm_again"
    /\ UNCHANGED <<text, out2, padsYear, paragraphs, tables, pi, ti, ri, ci,
                   eh, fecha, counts, data, rows, endpoints>>

NormTwice ==
    /\ pc = "norm_again"
    /\ out2' = _norm(out)
    /\ pc' = "done"
    /\ UNCHANGED <<text, out, padsYear, paragraphs, tables, pi, ti, ri, ci,
                   eh, fecha, counts, data, rows, endpoints>>

NextNorm == NormOnce \/ NormTwice

SpecNorm == InitNorm /\ [][NextNorm]_vars

\* C6: _norm is idempotent: _norm(_norm(s)) = _norm(s) for every text s.
C6_NormIdempotent == pc = "done" => out2 = out

(***************************************************************************)
(* SpecDate: parse_spanish_date applied to a text.                         *)
(***************************************************************************)
DayPool ==
    { <<"0">>, <<"3">>, <<"0","3">>, <<"2","9">>, <<"3","0">>, <<"3","1">> }

MonthPool ==
    { <<"e","n","e","r","o">>, <<"F","e","b","r","e","r","o">>, <<"f","e","b">>,
      <<"a","b","r","i","l">>, <<"D","I","C">>,
      <<"s","e","t","i","e","m","b","r","e">>, <<"x","y","z">>, <<"d","e">> }

YearPool ==
    { <<"2","0","2","4">>, <<"2","0","2","3">>, <<"1","9","0","0">>,
      <<"2","0","0","0">>, <<"0","0","0","0">>, <<"0","9","9","9">> }

\* the separators before and after the month
SepPool ==
    { << <<" ","d","e"," ">>, <<" ","d","e"," ">> >>,
      << <<NBSP,"D","e"," "," ">>, <<TAB,"d","e",NBSP>> >>,
      << <<"-">>, <<"-">> >>,
      << <<"/">>, <<" ">> >>,
      << <<".">>, <<".">> >> }

PrefixPool == { EmptyText, <<"F","e","c","h","a",":"," ","1">> }

SuffixPool == { EmptyText, <<"5">> }

DateTexts ==
    { p \o d \o sep[1] \o m \o sep[2] \o y \o x :
        p \in PrefixPool, d \in DayPool, sep \in SepPool, m \in MonthPool,
        y \in YearPool, x \in SuffixPool }
    \cup { EmptyText, <<"s","i","n"," ","f","e","c","h","a">> }

InitDate ==
    /\ text \in DateTexts
    /\ padsYear \in BOOLEAN
    /\ pc = "parse"
    /\ out = Idle /\ out2 = Idle
    /\ paragraphs = Idle /\ tables = Idle
    /\ pi = Idle /\ ti = Idle /\ ri = Idle /\ ci = Idle
    /\ eh = Idle /\ fecha = Idle /\ counts = Idle
    /\ data = Idle /\ rows = Idle /\ endpoints = Idle

ParseDate ==
    /\ pc = "parse"
    /\ out' = parse_spanish_date(text, padsYear)
    /\ pc' = "done"
    /\ UNCHANGED <<text, out2, padsYear, paragraphs, tables, pi, ti, ri, ci,
                   eh, fecha, counts, data, rows, endpoints>>

NextDate == ParseDate

SpecDate == InitDate /\ [][NextDate]_vars

\* a text is DD/MM/YYYY, zero-padded, and names a day of the calendar
IsCalendarDate(s) ==
    /\ Len(s) = 10
    /\ s[3] = "/" /\ s[6] = "/"
    /\ \A i \in {1, 2, 4, 5, 7, 8, 9, 10} : s[i] \in DigitSet
    /\ LET d == ToInt(SubSeq(s, 1, 2))
           m == ToInt(SubSeq(s, 4, 5))
           y == ToInt(SubSeq(s, 7, 10))
       IN  /\ m \in 1..12
           /\ d >= 1
           /\ d <= (CASE m = 2 -> IF (y % 4 = 0 /\ y % 100 # 0) \/ y % 400 = 0
                                   THEN 29 ELSE 28
                      [] m \in {4, 6, 9, 11} -> 30
                      [] OTHER -> 31)

\* C7: parse_spanish_date returns the empty string or a zero-padded
\* DD/MM/YYYY string that denotes a valid calendar date.
C7_DateOrEmpty == pc = "done" => (out = EmptyText \/ IsCalendarDate(out))

(***************************************************************************)
(* extract_eh_code.                                                        *)
(***************************************************************************)
\* \bEH-[A-Z0-9]{2,}-\d{5}\b, re.IGNORECASE
RE_EH ==
    << WordB, One({"E", "e"}), One({"H", "h"}), One({"-"}),
       Cls(AsciiUpper \cup AsciiLower \cup DigitSet, 2, -1), One({"-"}),
       Cls(RE_DIGIT, 5, 5), WordB >>

\* pat.search(s)
pat_search(s) ==
    LET m == Search(s, RE_EH)
    IN  IF m.found THEN [found |-> TRUE, group0 |-> Group0(s, m)] ELSE NoMatch

\* the positions of the cells of one table, row by row
RECURSIVE RowCells(_, _, _)
RowCells(tbl, t, r) ==
    IF r > Len(tbl) THEN <<>>
    ELSE [c \in 1..Len(tbl[r]) |-> <<t, r, c>>] \o RowCells(tbl, t, r + 1)

\* lines 63-65: the cells of all tables in the order of the three nested loops
RECURSIVE CellsInOrder(_, _)
CellsInOrder(tbls, t) ==
    IF t > Len(tbls) THEN <<>>
    ELSE RowCells(tbls[t], t, 1) \o CellsInOrder(tbls, t + 1)

CellText(tbls, pos) == tbls[pos[1]][pos[2]][pos[3]]

TXT_EH_NONE == <<"I","n","f","o","r","m","e">>

TXT_EH_XX == <<"E","H","-","X","X","-","1","1","1","1","1">>

TXT_EH_LOWER == <<"e","h","-","a","b","c","1","2","-","0","0","0","0","1">>

TXT_EH_SECOND == <<"x","E","H","-","X","X","-","1","1","1","1","1"," ",E_ACUTE,"E","H","-","Z","Z","-","3","3","3","3","3"," ","(","E","H","-","Y","Y","-","2","2","2","2","2",")",".">>

TXT_EH_MALFORMED == <<"E","H","-","A","-","1","1","1","1","1"," ","E","H","-","A","B","-","1","2","3","4","5","6"," ","E","H","-","A","B","-","1","2","3","4","_">>

EhMaxParas == 2

EhMaxTables == 2

EhParaPool == {TXT_EH_NONE, TXT_EH_XX, TXT_EH_SECOND, TXT_EH_MALFORMED}

EhTablePool ==
    { <<>>,
      << <<TXT_EH_NONE, TXT_EH_LOWER>>, <<TXT_EH_XX, TXT_EH_NONE>> >>,
      << <<TXT_EH_MALFORMED>>, <<>>, <<TXT_EH_NONE, TXT_EH_SECOND>> >>,
      << <<TXT_EH_NONE>>, <<TXT_EH_MALFORMED, TXT_EH_NONE>> >>,
      << <<TXT_EH_XX>> >> }

InitEH ==
    /\ paragraphs \in SeqsUpTo(EhParaPool, EhMaxParas)
    /\ tables \in SeqsUpTo(EhTablePool, EhMaxTables)
    /\ pc = "eh_paragraphs"
    /\ pi = 1 /\ ci = 1
    /\ eh = Idle
    /\ text = Idle /\ out = Idle /\ out2 = Idle /\ padsYear = Idle
    /\ ti = Idle /\ ri = Idle
    /\ fecha = Idle /\ counts = Idle
    /\ data = Idle /\ rows = Idle /\ endpoints = Idle

ehFrame == <<text, out, out2, padsYear, paragraphs, tables, ti, ri,
             fecha, counts, data, rows, endpoints>>

\* lines 60-62 with the match stored and the scan falling through to the
\* tables instead of returning
EhParagraph_FallsThrough ==
    /\ pc = "eh_paragraphs"
    /\ pi <= Len(paragraphs)
    /\ LET m == pat_search(paragraphs[pi])
       IN  IF m.found
           THEN eh' = UpperText(m.group0) /\ pc' = "eh_tables" /\ pi' = pi
           ELSE eh' = eh /\ pc' = pc /\ pi' = pi + 1
    /\ UNCHANGED ci
    /\ UNCHANGED ehFrame

\* lines 60-62: one paragraph of the first loop
EhParagraph ==
    /\ pc = "eh_paragraphs"
    /\ pi <= Len(paragraphs)
    /\ LET m == pat_search(paragraphs[pi])
       IN  IF m.found
           THEN eh' = UpperText(m.group0) /\ pc' = "done" /\ pi' = pi
           ELSE eh' = eh /\ pc' = pc /\ pi' = pi + 1
    /\ UNCHANGED ci
    /\ UNCHANGED ehFrame

\* line 63: the first loop ends without a match
EhParagraphsEnd ==
    /\ pc = "eh_paragraphs"
    /\ pi > Len(paragraphs)
    /\ pc' = "eh_tables"
    /\ UNCHANGED <<pi, ci, eh>>
    /\ UNCHANGED ehFrame

\* lines 65-67: one cell of the nested loops
EhCell ==
    /\ pc = "eh_tables"
    /\ ci <= Len(CellsInOrder(tables, 1))
    /\ LET m == pat_search(CellText(tables, CellsInOrder(tables, 1)[ci]))
       IN  IF m.found
           THEN eh' = UpperText(m.group0) /\ pc' = "done" /\ ci' = ci
           ELSE eh' = eh /\ pc' = pc /\ ci' = ci + 1
    /\ UNCHANGED pi
    /\ UNCHANGED ehFrame

\* line 68
EhReturnEmpty ==
    /\ pc = "eh_tables"
    /\ ci > Len(CellsInOrder(tables, 1))
    /\ eh' = EmptyText
    /\ pc' = "done"
    /\ UNCHANGED <<pi, ci>>
    /\ UNCHANGED ehFrame

NextEH == EhParagraph \/ EhParagraphsEnd \/ EhCell \/ EhReturnEmpty

SpecEH == InitEH /\ [][NextEH]_vars

\* the rows <<table, row>> and the cells <<table, row, cell>> of a document
AllRows(tbls) == UNION {{<<t, r>> : r \in 1..Len(tbls[t])} : t \in 1..Len(tbls)}

AllCells(tbls) ==
    UNION {{<<rw[1], rw[2], c>> : c \in 1..Len(tbls[rw[1]][rw[2]])} : rw \in AllRows(tbls)}

\* the paragraphs that hold a match of the pattern
EhParaHits == {i \in 1..Len(paragraphs) : pat_search(paragraphs[i]).found}

\* the cells <<table, row, cell>> that hold a match of the pattern
EhCellHits ==
    {pos \in AllCells(tables) : pat_search(CellText(tables, pos)).found}

\* table order, then row order, then cell order
CellBefore(a, b) ==
    \/ a[1] < b[1]
    \/ a[1] = b[1] /\ a[2] < b[2]
    \/ a[1] = b[1] /\ a[2] = b[2] /\ a[3] <= b[3]

\* C3: extract_eh_code returns the uppercased first match: of the earliest
\* matching paragraph if any paragraph matches, whatever the tables hold;
\* otherwise of the first matching cell in table, row, cell order; and the
\* empty string only if no paragraph and no cell matches.
C3_EhFirstMatch ==
    pc = "done" =>
        IF EhParaHits # {}
        THEN LET i == CHOOSE i \in EhParaHits : \A j \in EhParaHits : i <= j
             IN  eh = UpperText(pat_search(paragraphs[i]).group0)
        ELSE IF EhCellHits # {}
        THEN LET a == CHOOSE a \in EhCellHits : \A b \in EhCellHits : CellBefore(a, b)
             IN  eh = UpperText(pat_search(CellText(tables, a)).group0)
        ELSE eh = EmptyText

\* a paragraph match wins over a different match in an earlier-scanned table
C3_Witness ==
    /\ pc = "done"
    /\ Cardinality(EhParaHits) = 2
    /\ EhCellHits # {}
    /\ eh = UpperText(TXT_EH_XX)
    /\ paragraphs[2] = TXT_EH_SECOND
    /\ \E a \in EhCellHits : UpperText(pat_search(CellText(tables, a)).group0) # eh

(***************************************************************************)
(* extract_fecha_version.                                                  *)
(***************************************************************************)
LIT_FECHA_DE_LA_VERSION ==
    <<"f","e","c","h","a"," ","d","e"," ","l","a"," ","v","e","r","s","i","o","n">>

LIT_FECHA == <<"f","e","c","h","a">>

\* lines 71-72: the rows of all tables in the order of the two nested loops
RECURSIVE RowsInOrder(_, _)
RowsInOrder(tbls, t) ==
    IF t > Len(tbls) THEN <<>>
    ELSE [r \in 1..Len(tbls[t]) |-> <<t, r>>] \o RowsInOrder(tbls, t + 1)

RowAt(tbls, pos) == tbls[pos[1]][pos[2]]

\* lines 73-74: the row is the version-date row
IsFechaRow(cells) ==
    Len(cells) >= 2 /\ Contains(LIT_FECHA_DE_LA_VERSION, _norm(cells[1]))

TXT_F_LABEL == <<"F","e","c","h","a"," ","d","e"," ","l","a"," ","v","e","r","s","i",O_ACUTE,"n">>

TXT_F_LABEL_UP == <<" ","F","E","C","H","A"," ","D","E"," ","L","A"," ","V","E","R","S","I","O","N",":">>

TXT_F_OTHER == <<"V","e","r","s","i",O_ACUTE,"n">>

TXT_F_FECHA == <<"F","e","c","h","a">>

TXT_F_LONG == <<"0","3"," ","d","e"," ","d","i","c","i","e","m","b","r","e"," ","d","e"," ","2","0","2","4">>

TXT_F_FEB31 == <<"3","1"," ","d","e"," ","f","e","b","r","e","r","o"," ","d","e"," ","2","0","2","4">>

TXT_F_ABBR == <<"0","2","-","d","i","c","-","2","0","2","4">>

TXT_F_P_FEB31 == <<"L","a"," ","f","e","c","h","a"," ","e","s"," ","3","1"," ","d","e"," ","f","e","b","r","e","r","o"," ","d","e"," ","2","0","2","4">>

TXT_F_P_NOWORD == <<"E","m","i","t","i","d","o"," ","e","l"," ","0","3"," ","d","e"," ","d","i","c","i","e","m","b","r","e"," ","d","e"," ","2","0","2","4">>

TXT_F_P_LONG == <<"F","E","C","H","A"," ","D","E"," ","E","J","E","C","U","C","I",O_ACUTE_UP,"N",":"," ","5"," ","d","e"," ","e","n","e","r","o"," ","d","e"," ","2","0","2","3">>

FechaMaxParas == 2

FechaMaxTables == 2

FechaParaPool == {TXT_F_P_FEB31, TXT_F_P_NOWORD, TXT_F_P_LONG}

FechaTablePool ==
    {      << <<TXT_F_OTHER, TXT_F_ABBR>>, <<TXT_F_LABEL, TXT_F_LONG>> >>,
      << <<TXT_F_LABEL>>, <<TXT_F_LABEL_UP, TXT_F_FEB31, TXT_F_ABBR>> >>,
      << <<TXT_F_FECHA, TXT_F_ABBR>>, <<>> >>,
      << <<TXT_F_LABEL, TXT_F_ABBR>>, <<TXT_F_LABEL, TXT_F_LONG>> >> }

InitFecha ==
    /\ paragraphs \in SeqsUpTo(FechaParaPool, FechaMaxParas)
    /\ tables \in SeqsUpTo(FechaTablePool, FechaMaxTables)
    /\ padsYear \in BOOLEAN
    /\ pc = "fecha_tables"
    /\ pi = 1 /\ ri = 1
    /\ fecha = Idle
    /\ text = Idle /\ out = Idle /\ out2 = Idle
    /\ ti = Idle /\ ci = Idle
    /\ eh = Idle /\ counts = Idle
    /\ data = Idle /\ rows = Idle /\ endpoints = Idle

fechaFrame == <<text, out, out2, padsYear, paragraphs, tables, ti, ci,
                eh, counts, data, rows, endpoints>>

\* lines 73-75 with an empty parse skipped, as the paragraph loop skips it
FechaRow_SkipsEmpty ==
    /\ pc = "fecha_tables"
    /\ ri <= Len(RowsInOrder(tables, 1))
    /\ LET cells == RowAt(tables, RowsInOrder(tables, 1)[ri])
           parsed == IF IsFechaRow(cells)
                     THEN parse_spanish_date(cells[2], padsYear) ELSE EmptyText
       IN  IF parsed # EmptyText
           THEN fecha' = parsed /\ pc' = "done" /\ ri' = ri
           ELSE fecha' = fecha /\ pc' = pc /\ ri' = ri + 1
    /\ UNCHANGED pi
    /\ UNCHANGED fechaFrame

\* lines 73-75: one row of the nested loops
FechaRow ==
    /\ pc = "fecha_tables"
    /\ ri <= Len(RowsInOrder(tables, 1))
    /\ LET cells == RowAt(tables, RowsInOrder(tables, 1)[ri])
       IN  IF IsFechaRow(cells)
           THEN /\ fecha' = parse_spanish_date(cells[2], padsYear)
                /\ pc' = "done" /\ ri' = ri
           ELSE fecha' = fecha /\ pc' = pc /\ ri' = ri + 1
    /\ UNCHANGED pi
    /\ UNCHANGED fechaFrame

\* line 76: the table loops end without a version-date row
FechaTablesEnd ==
    /\ pc = "fecha_tables"
    /\ ri > Len(RowsInOrder(tables, 1))
    /\ pc' = "fecha_paragraphs"
    /\ UNCHANGED <<pi, ri, fecha>>
    /\ UNCHANGED fechaFrame

\* lines 77-79: one paragraph of the fallback loop
FechaParagraph ==
    /\ pc = "fecha_paragraphs"
    /\ pi <= Len(paragraphs)
    /\ LET parsed == IF Contains(LIT_FECHA, _norm(paragraphs[pi]))
                     THEN parse_spanish_date(paragraphs[pi], padsYear)
                     ELSE EmptyText
       IN  IF parsed # EmptyText
           THEN fecha' = parsed /\ pc' = "done" /\ pi' = pi
           ELSE fecha' = fecha /\ pc' = pc /\ pi' = pi + 1
    /\ UNCHANGED ri
    /\ UNCHANGED fechaFrame

\* line 80
FechaReturnEmpty ==
    /\ pc = "fecha_paragraphs"
    /\ pi > Len(paragraphs)
    /\ fecha' = EmptyText
    /\ pc' = "done"
    /\ UNCHANGED <<pi, ri>>
    /\ UNCHANGED fechaFrame

NextFecha == FechaRow \/ FechaTablesEnd \/ FechaParagraph \/ FechaReturnEmpty

SpecFecha == InitFecha /\ [][NextFecha]_vars

\* the rows with at least two cells whose first cell names the version date
FechaRowHits ==
    {rw \in AllRows(tables) :
        /\ Len(RowAt(tables, rw)) >= 2
        /\ Contains(LIT_FECHA_DE_LA_VERSION, _norm(RowAt(tables, rw)[1]))}

\* the paragraphs that contain 'fecha' and parse to a date
FechaParaHits ==
    {i \in 1..Len(paragraphs) :
        /\ Contains(LIT_FECHA, _norm(paragraphs[i]))
        /\ parse_spanish_date(paragraphs[i], padsYear) # EmptyText}

RowBefore(a, b) == a[1] < b[1] \/ (a[1] = b[1] /\ a[2] <= b[2])

\* C4: if some row with at least two cells has a first cell containing
\* 'fecha de la version', extract_fecha_version returns parse_spanish_date of
\* the second cell of the first such row and never reads the paragraphs, even
\* when that parse is empty; otherwise it returns the date of the first
\* paragraph that contains 'fecha' and parses, and the empty string if none.
C4_FechaTableFirst ==
    /\ pc = "fecha_paragraphs" => FechaRowHits = {}
    /\ pc = "done" =>
        IF FechaRowHits # {}
        THEN LET a == CHOOSE a \in FechaRowHits : \A b \in FechaRowHits : RowBefore(a, b)
             IN  fecha = parse_spanish_date(RowAt(tables, a)[2], padsYear)
        ELSE IF FechaParaHits # {}
        THEN LET i == CHOOSE i \in FechaParaHits : \A j \in FechaParaHits : i <= j
             IN  fecha = parse_spanish_date(paragraphs[i], padsYear)
        ELSE fecha = EmptyText

\* the first version-date row parses to nothing, a later row and a paragraph
\* hold a date, and the result is empty
C4_Witness ==
    /\ pc = "done"
    /\ Cardinality(FechaRowHits) >= 2
    /\ FechaParaHits # {}
    /\ fecha = EmptyText

(***************************************************************************)
(* count_vulnerabilities_by_severity.                                      *)
(***************************************************************************)
LIT_SEVERIDAD == <<"s","e","v","e","r","i","d","a","d">>

LIT_CVSS == <<"c","v","s","s">>

LIT_VULNERABILIDAD == <<"v","u","l","n","e","r","a","b","i","l","i","d","a","d">>

\* " | ".join(_norm(c.text) for c in cells)
RECURSIVE JoinBar(_)
JoinBar(cells) ==
    IF cells = <<>> THEN EmptyText
    ELSE IF Len(cells) = 1 THEN _norm(cells[1])
    ELSE _norm(cells[1]) \o <<" ", "|", " ">> \o JoinBar(Tail(cells))

\* lines 82-86 with `and` binding tighter than the `or` it should follow
_is_resume_table_or(t) ==
    IF t # <<>>
    THEN \/ Contains(LIT_SEVERIDAD, JoinBar(t[1])) /\ Contains(LIT_CVSS, JoinBar(t[1]))
         \/ Contains(LIT_VULNERABILIDAD, JoinBar(t[1]))
    ELSE FALSE

\* lines 82-86
_is_resume_table(t) ==
    IF t # <<>>
    THEN /\ Contains(LIT_SEVERIDAD, JoinBar(t[1]))
         /\ \/ Contains(LIT_CVSS, JoinBar(t[1]))
            \/ Contains(LIT_VULNERABILIDAD, JoinBar(t[1]))
    ELSE FALSE

\* counts.keys(), in insertion order
SEVERITY_KEYS == <<"CRITICA", "ALTA", "MEDIA", "BAJA">>

KeyText(key) ==
    CASE key = "CRITICA" -> <<"C","R","I","T","I","C","A">>
      [] key = "ALTA" -> <<"A","L","T","A">>
      [] key = "MEDIA" -> <<"M","E","D","I","A">>
      [] key = "BAJA" -> <<"B","A","J","A">>

\* line 94: sev of a row with at least one cell
SevOf(cells) ==
    ReplaceChar(UpperText(_clean(cells[Len(cells)])), I_ACUTE_UP, "I")

\* lines 95-98 without the break: every key found in sev is incremented
BumpAll(c, sev) ==
    [key \in DOMAIN c |-> IF Contains(KeyText(key), sev) THEN c[key] + 1 ELSE c[key]]

\* lines 95-98: the first key found in sev is incremented
BumpFirst(c, sev) ==
    LET found == {n \in DOMAIN SEVERITY_KEYS : Contains(KeyText(SEVERITY_KEYS[n]), sev)}
    IN  IF found = {} THEN c
        ELSE [c EXCEPT ![SEVERITY_KEYS[CHOOSE n \in found : \A j \in found : n <= j]] = @ + 1]

TXT_S_ID == <<"I","D">>

TXT_S_VULN == <<"V","u","l","n","e","r","a","b","i","l","i","d","a","d">>

TXT_S_CVSS == <<"C","V","S","S">>

TXT_S_SEV == <<"S","e","v","e","r","i","d","a","d">>

TXT_S_SEV_UP == <<"S","E","V","E","R","I","D","A","D",NBSP>>

TXT_S_SEV_KEYS == <<"S","e","v","e","r","i","d","a","d"," ","(","A","l","t","a","/","B","a","j","a",")">>

TXT_S_CRITICA == <<"C","r",I_ACUTE,"t","i","c","a">>

TXT_S_CRITICA_DEC == <<"C","r","i",COMBINING_ACUTE,"t","i","c","a">>

TXT_S_ALTA == <<"A","l","t","a">>

TXT_S_MEDIA == <<" ","m","e","d","i","a"," ">>

TXT_S_BAJA == <<"B","A","J","A">>

TXT_S_NA == <<"N","/","A">>

TXT_S_MEDIA_ALTA == <<"M","e","d","i","a"," ","-"," ","A","l","t","a">>

CountMaxTables == 2

H_CVSS == <<TXT_S_ID, TXT_S_VULN, TXT_S_CVSS, TXT_S_SEV>>

SevTablePool ==
    { <<>>,
      << H_CVSS, <<TXT_S_ID, TXT_S_CRITICA>>, <<TXT_S_ALTA>>, <<TXT_S_ID, TXT_S_NA>> >>,
      << <<TXT_S_SEV_UP, TXT_S_VULN>>, <<TXT_S_MEDIA_ALTA>>, <<>>, <<TXT_S_ALTA, TXT_S_BAJA>> >>,
      << <<TXT_S_VULN, TXT_S_CVSS>>, <<TXT_S_ID, TXT_S_ALTA>> >>,
      << <<TXT_S_CVSS, TXT_S_SEV_KEYS>>, <<TXT_S_MEDIA>>, <<TXT_S_CRITICA_DEC>> >>,
      << <<TXT_S_SEV>>, <<TXT_S_BAJA>> >>,
      << <<TXT_S_VULN>>, <<TXT_S_CRITICA>> >> }

InitCount ==
    /\ paragraphs = <<>>
    /\ tables \in SeqsUpTo(SevTablePool, CountMaxTables)
    /\ pc = "count_table"
    /\ ti = 1 /\ ri = 1
    /\ counts = [key \in Range(SEVERITY_KEYS) |-> 0]
    /\ text = Idle /\ out = Idle /\ out2 = Idle /\ padsYear = Idle
    /\ pi = Idle /\ ci = Idle
    /\ eh = Idle /\ fecha = Idle
    /\ data = Idle /\ rows = Idle /\ endpoints = Idle

countFrame == <<text, out, out2, padsYear, paragraphs, tables, pi, ci,
                eh, fecha, data, rows, endpoints>>

\* lines 90-92: the next table is skipped, or its data rows are entered
CountTable ==
    /\ pc = "count_table"
    /\ ti <= Len(tables)
    /\ IF _is_resume_table(tables[ti])
       THEN pc' = "count_rows" /\ ri' = 2 /\ ti' = ti
       ELSE pc' = pc /\ ri' = ri /\ ti' = ti + 1
    /\ UNCHANGED counts
    /\ UNCHANGED countFrame

\* lines 93-98: one data row
CountRow ==
    /\ pc = "count_rows"
    /\ ri <= Len(tables[ti])
    /\ counts' = IF tables[ti][ri] = <<>> THEN counts
                 ELSE BumpFirst(counts, SevOf(tables[ti][ri]))
    /\ ri' = ri + 1
    /\ UNCHANGED <<pc, ti>>
    /\ UNCHANGED countFrame

\* line 92: the rows of the table are exhausted
CountTableEnd ==
    /\ pc = "count_rows"
    /\ ri > Len(tables[ti])
    /\ pc' = "count_table"
    /\ ti' = ti + 1
    /\ UNCHANGED <<ri, counts>>
    /\ UNCHANGED countFrame

\* line 99
CountReturn ==
    /\ pc = "count_table"
    /\ ti > Len(tables)
    /\ pc' = "done"
    /\ UNCHANGED <<ti, ri, counts>>
    /\ UNCHANGED countFrame

NextCount == CountTable \/ CountRow \/ CountTableEnd \/ CountReturn

SpecCount == InitCount /\ [][NextCount]_vars

SumCounts == counts["CRITICA"] + counts["ALTA"] + counts["MEDIA"] + counts["BAJA"]

\* the keys that the scan of a row with last-cell text sev may increment: the
\* first of CRITICA, ALTA, MEDIA, BAJA that sev contains, if any
FirstKeyIn(sev) ==
    LET order == <<"CRITICA", "ALTA", "MEDIA", "BAJA">>
    IN  {order[n] : n \in {n \in 1..4 :
            /\ Contains(KeyText(order[n]), sev)
            /\ \A m \in 1..(n - 1) : ~Contains(KeyText(order[m]), sev)}}

\* the step scans a data row that has cells
ScansDataRow ==
    /\ pc = "count_rows"
    /\ ri <= Len(tables[ti])
    /\ tables[ti][ri] # <<>>

\* C5: every data row of a qualifying table contributes to at most one
\* severity bucket: the scan of a row increments by exactly 1 the first key,
\* in the order CRITICA, ALTA, MEDIA, BAJA, contained in the row's cleaned,
\* uppercased last cell (sev, line 94) and changes nothing if there is none;
\* no other step changes a count; every count is non-negative and never
\* decreases.
C5_OneBucketPerRow ==
    /\ [](\A key \in DOMAIN counts : counts[key] >= 0)
    /\ [][LET changed == {key \in DOMAIN counts : counts'[key] # counts[key]}
          IN  /\ DOMAIN counts' = {"CRITICA", "ALTA", "MEDIA", "BAJA"}
              /\ \A key \in DOMAIN counts : counts'[key] >= counts[key]
              /\ \A key \in changed : counts'[key] = counts[key] + 1
              /\ Cardinality(changed) <= 1
              /\ changed = IF ScansDataRow THEN FirstKeyIn(SevOf(tables[ti][ri]))
                           ELSE {}]_vars

\* a row whose last cell contains two keys has just been scanned, and only
\* ALTA was incremented
C5_Witness ==
    /\ pc = "count_rows"
    /\ ti = 1 /\ ri = 3
    /\ Contains(KeyText("MEDIA"), SevOf(tables[ti][ri - 1]))
    /\ Contains(KeyText("ALTA"), SevOf(tables[ti][ri - 1]))
    /\ counts = [CRITICA |-> 0, ALTA |-> 1, MEDIA |-> 0, BAJA |-> 0]

\* a resume table: it has rows, and the normalized cells of its first row
\* contain 'severidad' together with 'cvss' or 'vulnerabilidad'
Qualifies(t) ==
    /\ Len(t) >= 1
    /\ \E c \in 1..Len(t[1]) : Contains(LIT_SEVERIDAD, _norm(t[1][c]))
    /\ \E c \in 1..Len(t[1]) :
          \/ Contains(LIT_CVSS, _norm(t[1][c]))
          \/ Contains(LIT_VULNERABILIDAD, _norm(t[1][c]))

\* the non-header rows the scan has passed
PassedRows ==
    {rw \in AllRows(tables) :
        /\ rw[2] >= 2
        /\ \/ rw[1] < ti
           \/ rw[1] = ti /\ pc = "count_rows" /\ rw[2] < ri}

\* the non-header rows of qualifying tables whose last cell holds a key
KeyRows ==
    {rw \in AllRows(tables) :
        /\ rw[2] >= 2
        /\ Qualifies(tables[rw[1]])
        /\ RowAt(tables, rw) # <<>>
        /\ \E key \in DOMAIN counts : Contains(KeyText(key), SevOf(RowAt(tables, rw)))}

\* C10: the counts do not change while the scan is on a table that is not a
\* resume table or on the header row of a resume table; they accumulate
\* across the qualifying tables: the sum of the four counts is the number of
\* non-header rows of qualifying tables passed so far whose last cell
\* contains a severity key, hence of all such rows at the end.
C10_FrameAndSum ==
    /\ [](SumCounts = Cardinality(KeyRows \cap PassedRows))
    /\ [](pc = "done" => SumCounts = Cardinality(KeyRows))
    /\ [][(/\ pc \in {"count_table", "count_rows"}
           /\ ti <= Len(tables)
           /\ (~Qualifies(tables[ti]) \/ pc = "count_table" \/ ri = 1))
          => counts' = counts]_vars

\* a qualifying table then a table that is not one but has a row with a key:
\* only the rows of the first are counted
C10_Witness ==
    /\ pc = "done"
    /\ Len(tables) = 2
    /\ Qualifies(tables[1])
    /\ ~Qualifies(tables[2])
    /\ \E r \in 2..Len(tables[2]) :
          \E key \in DOMAIN counts : Contains(KeyText(key), SevOf(tables[2][r]))
    /\ SumCounts = 2
    /\ counts["CRITICA"] = 1

(***************************************************************************)
(* extract_endpoints.                                                      *)
(***************************************************************************)
HTTP_METHODS ==
    { <<"G","E","T">>, <<"P","O","S","T">>, <<"P","U","T">>,
      <<"P","A","T","C","H">>, <<"D","E","L","E","T","E">>,
      <<"O","P","T","I","O","N","S">>, <<"H","E","A","D">> }

\* LABELS, line 102
LABELS ==
    << [k |-> <<"p","u","n","t","o"," ","d","e"," ","e","n","t","r","a","d","a">>,
        v |-> "num"],
       [k |-> <<"m","e","t","o","d","o">>, v |-> "metodo"],
       [k |-> <<"m",E_ACUTE,"t","o","d","o">>, v |-> "metodo"],
       [k |-> <<"u","r","i">>, v |-> "uri"] >>

\* line 105
EmptyData == [num |-> EmptyText, metodo |-> EmptyText, uri |-> EmptyText]

\* lines 107-110: data after one row
RowUpdate(d, cells) ==
    IF Len(cells) < 2 THEN d
    ELSE LET hit == {n \in DOMAIN LABELS : LABELS[n].k = _norm(cells[1])}
         IN  IF hit = {} THEN d
             ELSE [d EXCEPT ![LABELS[CHOOSE n \in hit : TRUE].v] = _clean(cells[2])]

\* lines 111-114: rows after the table whose accumulator is d
AppendAccepted(rs, d) ==
    IF d.num # EmptyText /\ d.metodo # EmptyText /\ d.uri # EmptyText
    THEN IF UpperText(Split(d.metodo)[1]) \in HTTP_METHODS
         THEN Append(rs, <<d.num, UpperText(Split(d.metodo)[1]), d.uri>>)
         ELSE rs
    ELSE rs

\* ord(c) of the characters that occur in a num cell
CodePoint(c) ==
    IF c \in DigitSet THEN 47 + IndexOf(Digits, c)
    ELSE IF c \in AsciiUpper THEN 64 + IndexOf(UpperAlpha, c)
    ELSE IF c \in AsciiLower THEN 96 + IndexOf(LowerAlpha, c)
    ELSE CASE c = " " -> 32 [] c = "-" -> 45 [] c = "." -> 46 [] c = "/" -> 47

\* a < b for two str
RECURSIVE TextLess(_, _)
TextLess(a, b) ==
    IF b = EmptyText THEN FALSE
    ELSE IF a = EmptyText THEN TRUE
    ELSE IF Head(a) = Head(b) THEN TextLess(Tail(a), Tail(b))
    ELSE CodePoint(Head(a)) < CodePoint(Head(b))

IsDigitChar(c) == c \in DigitSet

\* lines 115-117 with the int() left out: the digits compared as text
sort_key_text(r) == [int |-> FALSE, s |-> r[1]]

\* lines 115-117: int("") raises ValueError, and the except returns r[0]
sort_key(r) ==
    IF SelectSeq(r[1], IsDigitChar) # EmptyText
    THEN [int |-> TRUE, n |-> ToInt(SelectSeq(r[1], IsDigitChar))]
    ELSE [int |-> FALSE, s |-> r[1]]

\* ka < kb for two keys of the same type
KeyLess(ka, kb) == IF ka.int THEN ka.n < kb.n ELSE TextLess(ka.s, kb.s)

\* r put after the last record whose key is not greater than its own
InsertByKey(sorted, r) ==
    LET after == {i \in DOMAIN sorted : KeyLess(sort_key(r), sort_key(sorted[i]))}
        at == IF after = {} THEN Len(sorted) + 1
              ELSE CHOOSE i \in after : \A j \in after : i <= j
    IN  SubSeq(sorted, 1, at - 1) \o <<r>> \o SubSeq(sorted, at, Len(sorted))

\* list.sort(key=sort_key) on keys of one type: stable, ascending
RECURSIVE SortByKey(_)
SortByKey(rs) ==
    IF rs = <<>> THEN <<>>
    ELSE InsertByKey(SortByKey(SubSeq(rs, 1, Len(rs) - 1)), rs[Len(rs)])

Raised == [raised |-> TRUE]

\* lines 118-119 without the sort
SortOutcome_Unsorted(rs) == [raised |-> FALSE, value |-> rs]

\* lines 118-119: a sort that compares an int key with a str key raises
\* TypeError, which nothing catches
SortOutcome(rs) ==
    IF \E i, j \in DOMAIN rs : sort_key(rs[i]).int # sort_key(rs[j]).int
    THEN Raised
    ELSE [raised |-> FALSE, value |-> SortByKey(rs)]

\* lines 105-110: the accumulator after rows r.. of table t, from d
RECURSIVE TableData(_, _, _)
TableData(t, r, d) ==
    IF r > Len(t) THEN d ELSE TableData(t, r + 1, RowUpdate(d, t[r]))

TXT_L_NUM == <<"P","u","n","t","o"," ","d","e"," ","e","n","t","r","a","d","a">>

TXT_L_NUM_UP == <<NBSP,"P","U","N","T","O"," ","D","E"," ","E","N","T","R","A","D","A"," ">>

TXT_L_METODO == <<"M",E_ACUTE,"t","o","d","o">>

TXT_L_METODO_UP == <<"M","E","T","O","D","O">>

TXT_L_URI == <<"U","R","I">>

TXT_L_OTHER == <<"P","u","n","t","o">>

TXT_N_1 == <<"1">>

TXT_N_2 == <<"2">>

TXT_N_10 == <<"1","0">>

TXT_N_EP01 == <<"E","P","-","0","1">>

TXT_N_A == <<"A">>

TXT_N_AB == <<"A","b">>

TXT_N_3 == <<"3">>

TXT_M_GET == <<"G","E","T">>

TXT_M_POST == <<" ","p","o","s","t"," ",NBSP,"(","j","s","o","n",")">>

TXT_M_PUT == <<"P","u","t">>

TXT_M_FOO == <<"F","O","O">>

TXT_U_A == <<"/","a">>

TXT_U_B == <<"/","b"," "," ","c">>

TXT_U_BLANK == <<" ",NBSP>>

EpMaxTables == 3

EpTablePool ==
    { << <<TXT_L_NUM, TXT_N_1>>, <<TXT_L_METODO, TXT_M_GET>>, <<TXT_L_URI, TXT_U_A>> >>,
      << <<TXT_L_URI, TXT_U_B>>, <<TXT_L_METODO_UP, TXT_M_POST>>,
         <<TXT_L_NUM_UP, TXT_N_2, TXT_N_3>> >>,
      << <<TXT_L_NUM, TXT_N_3>>, <<TXT_L_NUM, TXT_N_10>>, <<TXT_L_OTHER, TXT_N_1>>,
         <<TXT_L_METODO, TXT_M_PUT>>, <<TXT_L_URI, TXT_U_A>> >>,
      << <<TXT_L_NUM, TXT_N_EP01>>, <<TXT_L_METODO, TXT_M_GET>>, <<TXT_L_URI, TXT_U_B>> >>,
      << <<TXT_L_NUM, TXT_N_A>>, <<TXT_L_METODO, TXT_M_GET>>, <<TXT_L_URI, TXT_U_A>> >>,
      << <<TXT_L_NUM, TXT_N_AB>>, <<TXT_L_METODO, TXT_M_PUT>>, <<TXT_L_URI, TXT_U_A>> >>,
      << <<TXT_L_NUM, TXT_N_2>>, <<TXT_L_METODO, TXT_M_FOO>>, <<TXT_L_URI, TXT_U_A>> >>,
      << <<TXT_L_URI, TXT_U_A>>, <<TXT_L_NUM, TXT_N_3>>, <<TXT_L_METODO, TXT_M_GET>>,
         <<TXT_L_URI>>, <<TXT_L_URI, TXT_U_BLANK>> >> }

\* the accumulator of each table of the pool after its last row
TableDataOf == [t \in EpTablePool |-> TableData(t, 1, EmptyData)]

\* lines 103-114: rows after tables n.. of tbls, from rs
RECURSIVE Collect(_, _, _)
Collect(tbls, n, rs) ==
    IF n > Len(tbls) THEN rs
    ELSE Collect(tbls, n + 1, AppendAccepted(rs, TableDataOf[tbls[n]]))

extract_endpoints(tbls) == SortOutcome(Collect(tbls, 1, <<>>))

InitEndpoints ==
    /\ paragraphs = <<>>
    /\ tables \in SeqsUpTo(EpTablePool, EpMaxTables)
    /\ pc = "ep_table"
    /\ ti = 1 /\ ri = 1
    /\ data = EmptyData
    /\ rows = <<>>
    /\ endpoints = Idle
    /\ text = Idle /\ out = Idle /\ out2 = Idle /\ padsYear = Idle
    /\ pi = Idle /\ ci = Idle
    /\ eh = Idle /\ fecha = Idle /\ counts = Idle

epFrame == <<text, out, out2, padsYear, paragraphs, tables, pi, ci, eh, fecha, counts>>

\* lines 104-105 with data created once, before the loop over the tables
EpBeginTable_NoReset ==
    /\ pc = "ep_table"
    /\ ti <= Len(tables)
    /\ pc' = "ep_rows"
    /\ ri' = 1
    /\ UNCHANGED <<ti, data, rows, endpoints>>
    /\ UNCHANGED epFrame

\* lines 104-105: the next table starts with an empty accumulator
EpBeginTable ==
    /\ pc = "ep_table"
    /\ ti <= Len(tables)
    /\ data' = EmptyData
    /\ pc' = "ep_rows"
    /\ ri' = 1
    /\ UNCHANGED <<ti, rows, endpoints>>
    /\ UNCHANGED epFrame

\* lines 106-110: one row
EpRow ==
    /\ pc = "ep_rows"
    /\ ri <= Len(tables[ti])
    /\ data' = RowUpdate(data, tables[ti][ri])
    /\ ri' = ri + 1
    /\ UNCHANGED <<pc, ti, rows, endpoints>>
    /\ UNCHANGED epFrame

\* lines 111-114: the table's candidate is accepted or dropped
EpEndTable ==
    /\ pc = "ep_rows"
    /\ ri > Len(tables[ti])
    /\ rows' = AppendAccepted(rows, data)
    /\ ti' = ti + 1
    /\ pc' = "ep_table"
    /\ UNCHANGED <<ri, data, endpoints>>
    /\ UNCHANGED epFrame

\* lines 115-119
EpSortReturn ==
    /\ pc = "ep_table"
    /\ ti > Len(tables)
    /\ endpoints' = SortOutcome(rows)
    /\ pc' = "done"
    /\ UNCHANGED <<ti, ri, data, rows>>
    /\ UNCHANGED epFrame

NextEndpoints == EpBeginTable \/ EpRow \/ EpEndTable \/ EpSortReturn

SpecEndpoints == InitEndpoints /\ [][NextEndpoints]_vars

\* C1: extract_endpoints returns a list for every document, also when some
\* accepted num values contain digits and others contain none: it never
\* raises.
C1_NeverRaises == pc = "done" => ~endpoints.raised

\* the tables of the document in another order
Reordered(f) == [i \in 1..Len(tables) |-> tables[f[i]]]

\* the sort key of a record as the claims word it: the digits of num,
\* concatenated, as an integer; the raw num if it has no digit
HasDigit(r) == \E i \in DOMAIN r[1] : r[1][i] \in DigitSet

DigitsValue(r) == ToInt(SelectSeq(r[1], IsDigitChar))

KeyEq(a, b) ==
    \/ HasDigit(a) /\ HasDigit(b) /\ DigitsValue(a) = DigitsValue(b)
    \/ ~HasDigit(a) /\ ~HasDigit(b) /\ a[1] = b[1]

KeyLE(a, b) ==
    \/ HasDigit(a) /\ HasDigit(b) /\ DigitsValue(a) <= DigitsValue(b)
    \/ ~HasDigit(a) /\ ~HasDigit(b) /\ (a[1] = b[1] \/ TextLess(a[1], b[1]))

\* C2 as stated: for every permutation of the tables extract_endpoints
\* returns the same sequence of records in the same order.
C2_OrderIndependent ==
    pc = "done" =>
        \A f \in Permutations(1..Len(tables)) : extract_endpoints(Reordered(f)) = endpoints

\* C2, amended: for every permutation of the tables extract_endpoints has the
\* same outcome (the same sequence in the same order, or an exception in
\* both), provided that any two accepted records with equal sort keys are
\* the same record.
C2_OrderIndependentUpToTies ==
    (/\ pc = "done"
     /\ \A i, j \in DOMAIN rows : KeyEq(rows[i], rows[j]) => rows[i] = rows[j])
    => \A f \in Permutations(1..Len(tables)) : extract_endpoints(Reordered(f)) = endpoints

\* three accepted records with different keys, met in descending key order
C2_Witness ==
    /\ pc = "done"
    /\ Len(rows) = 3
    /\ ~endpoints.raised
    /\ DigitsValue(rows[1]) > DigitsValue(rows[2])
    /\ DigitsValue(rows[2]) > DigitsValue(rows[3])
    /\ endpoints.value = <<rows[3], rows[2], rows[1]>>

\* C8: the returned sequence is ascending in the key 'digits of num as an
\* integer, else the raw num', and records with equal keys keep the order of
\* their tables.
C8_SortedStable ==
    (pc = "done" /\ ~endpoints.raised) =>
        /\ Len(endpoints.value) = Len(rows)
        /\ \A i \in 1..(Len(endpoints.value) - 1) :
              KeyLE(endpoints.value[i], endpoints.value[i + 1])
        /\ \A r \in Range(rows) :
              LET SameKey(x) == KeyEq(x, r)
              IN  SelectSeq(endpoints.value, SameKey) = SelectSeq(rows, SameKey)

\* num 10 met before nums 1 and EP-01, which have the same key: the sort
\* moves 10 last and leaves the other two in table order
C8_Witness ==
    /\ pc = "done"
    /\ ~endpoints.raised
    /\ Len(rows) = 3
    /\ DigitsValue(rows[1]) = 10
    /\ KeyEq(rows[2], rows[3]) /\ rows[2] # rows[3]
    /\ endpoints.value = <<rows[2], rows[3], rows[1]>>

\* the normalized first cells that name a slot
SlotLabels(slot) ==
    CASE slot = "num" ->
            { <<"p","u","n","t","o"," ","d","e"," ","e","n","t","r","a","d","a">> }
      [] slot = "metodo" ->
            { <<"m","e","t","o","d","o">>, <<"m",E_ACUTE,"t","o","d","o">> }
      [] slot = "uri" -> { <<"u","r","i">> }

\* last-write-wins: the cleaned second cell of the last of the rows of t
\* that has two cells and names the slot; empty if there is none
LastWrite(t, slot) ==
    LET named == {r \in 1..Len(t) :
                    Len(t[r]) >= 2 /\ _norm(t[r][1]) \in SlotLabels(slot)}
    IN  IF named = {} THEN EmptyText
        ELSE _clean(t[CHOOSE r \in named : \A q \in named : q <= r][2])

MethodToken(t) == UpperText(Split(LastWrite(t, "metodo"))[1])

\* the table yields a record
Yields(t) ==
    /\ LastWrite(t, "num") # EmptyText
    /\ LastWrite(t, "metodo") # EmptyText
    /\ LastWrite(t, "uri") # EmptyText
    /\ MethodToken(t) \in
          { <<"G","E","T">>, <<"P","O","S","T">>, <<"P","U","T">>,
            <<"P","A","T","C","H">>, <<"D","E","L","E","T","E">>,
            <<"O","P","T","I","O","N","S">>, <<"H","E","A","D">> }

\* the records a table yields from its own rows alone: none or one
YieldOf ==
    [t \in EpTablePool |->
        IF Yields(t)
        THEN << <<LastWrite(t, "num"), MethodToken(t), LastWrite(t, "uri")>> >>
        ELSE <<>>]

\* the records of the first n tables
RECURSIVE YieldsUpTo(_)
YieldsUpTo(n) == IF n = 0 THEN <<>> ELSE YieldsUpTo(n - 1) \o YieldOf[tables[n]]

\* C9: each table has its own accumulator, empty at the start of the table:
\* within a table the slots hold the last write of the rows read so far of
\* that table alone; a table yields at most one record, and yields one
\* exactly when its three slots are non-empty and the uppercased first token
\* of metodo is an HTTP method; every record has a non-empty num, a non-empty
\* uri and a method of that set.
C9_PerTableAccumulator ==
    /\ pc = "ep_rows" =>
          \A slot \in {"num", "metodo", "uri"} :
              data[slot] = LastWrite(SubSeq(tables[ti], 1, ri - 1), slot)
    /\ pc \in {"ep_table", "ep_rows", "done"} => rows = YieldsUpTo(ti - 1)
    /\ pc \in {"ep_table", "ep_rows", "done"} =>
          \A i \in DOMAIN rows :
              /\ rows[i][1] # EmptyText
              /\ rows[i][3] # EmptyText
              /\ rows[i][2] \in HTTP_METHODS
    /\ (pc = "done" /\ ~endpoints.raised) =>
          \A i \in DOMAIN endpoints.value : \E j \in DOMAIN rows : endpoints.value[i] = rows[j]

\* a table that yields a record is followed by a table that names num and
\* metodo but no uri: the second yields nothing
C9_Witness ==
    /\ pc = "ep_table"
    /\ ti = 3
    /\ Yields(tables[1])
    /\ LastWrite(tables[2], "num") # EmptyText
    /\ LastWrite(tables[2], "metodo") # EmptyText
    /\ LastWrite(tables[2], "uri") = EmptyText
    /\ Len(rows) = 1

====
